---- MODULE Spec2Model ----
(***************************************************************************)
(* FlowAugmentor of dataloader/augmentor.py as a state machine over small  *)
(* arrays: __call__ (colour jitter, eraser, spatial_transform) and         *)
(* spatial_transform on its own (pad, scale sampling, resampling, flips,   *)
(* crop), one action per step.                                             *)
(*                                                                         *)
(* Arrays are records [h, w, px], px a function on (1..h) \X (1..w);       *)
(* indices are 1-based here and 0-based in the source, offsets (y0, x0)    *)
(* are 0-based as in the source.  An image pixel is one uint8 intensity    *)
(* standing for its three channels, which the spatial transform treats     *)
(* alike.  A flow pixel is a pair of reals, a validity pixel a real and,   *)
(* once thresholded, a boolean.  Reals are exact rationals <<n, d>>,       *)
(* d > 0, in lowest terms: float rounding is not modelled.  cv2.resize is  *)
(* modelled by its INTER_LINEAR arithmetic (output extent cvRound(n * f),  *)
(* taps at (i + 0.5) / f - 0.5 clamped to the border); ColorJitter by a    *)
(* brightness factor.  Random draws range over small sets of values the    *)
(* generators can return.                                                  *)
(***************************************************************************)
EXTENDS Integers, Sequences, FiniteSets, TLC

\* ---------------------------------------------------------------- bounds
MaxDim == 3
MaxCrop == 2

\* ------------------------------------------------------------- rationals
Abs(n) == IF n < 0 THEN -n ELSE n

Min(a, b) == IF a < b THEN a ELSE b

Max(a, b) == IF a > b THEN a ELSE b

RECURSIVE Gcd(_, _)
Gcd(a, b) == IF b = 0 THEN a ELSE Gcd(b, a % b)

Norm(q) ==
  IF q[1] = 0 THEN <<0, 1>>
  ELSE LET g == Gcd(Abs(q[1]), q[2]) IN <<q[1] \div g, q[2] \div g>>

Rat(n) == <<n, 1>>

RLt(a, b) == a[1] * b[2] < b[1] * a[2]

RMax(a, b) == IF RLt(a, b) THEN b ELSE a

RAdd(a, b) == Norm(<<a[1] * b[2] + b[1] * a[2], a[2] * b[2]>>)

RMul(a, b) ==
  IF a[1] = 0 \/ b[1] = 0 THEN <<0, 1>>
  ELSE LET g1 == Gcd(Abs(a[1]), b[2])
           g2 == Gcd(Abs(b[1]), a[2])
       IN  Norm(<<(a[1] \div g1) * (b[1] \div g2), (a[2] \div g2) * (b[2] \div g1)>>)

\* a / b for b > 0
RDiv(a, b) == RMul(a, <<b[2], b[1]>>)

RNeg(a) == <<-a[1], a[2]>>

\* ---------------------------------------------------------------- arrays
Idx(h, w) == (1..h) \X (1..w)

\* an array of h rows and w columns with the pixels px
Arr(h, w, px) == [h |-> h, w |-> w, px |-> px]

EmptyArr == Arr(0, 0, [p \in Idx(0, 0) |-> 0])

SameShape(a, b) == a.h = b.h /\ a.w = b.w

\* ------------------------------------------------------ numpy primitives
\* faulty variant: the padding goes to the top and the left
NpPad_TopLeft(a, pad_b, pad_r, zero) ==
  Arr(a.h + pad_b, a.w + pad_r,
      [p \in Idx(a.h + pad_b, a.w + pad_r) |->
         IF p[1] > pad_b /\ p[2] > pad_r THEN a.px[<<p[1] - pad_b, p[2] - pad_r>>]
         ELSE zero])

\* np.pad(a, ((0, pad_b), (0, pad_r)), 'constant', constant_values=0)
NpPad(a, pad_b, pad_r, zero) ==
  Arr(a.h + pad_b, a.w + pad_r,
      [p \in Idx(a.h + pad_b, a.w + pad_r) |->
         IF p[1] <= a.h /\ p[2] <= a.w THEN a.px[p] ELSE zero])

\* a[y0:y1, x0:x1] for 0 <= y0, 0 <= x0 (0-based, end-exclusive, truncating)
NpSlice(a, ya, yb, xa, xb) ==
  LET h == Max(0, Min(yb, a.h) - Min(ya, a.h))
      w == Max(0, Min(xb, a.w) - Min(xa, a.w))
  IN  Arr(h, w, [p \in Idx(h, w) |-> a.px[<<ya + p[1], xa + p[2]>>]])

\* a[:, ::-1]
FlipCols(a) == Arr(a.h, a.w, [p \in Idx(a.h, a.w) |-> a.px[<<p[1], a.w + 1 - p[2]>>]])

\* a[::-1, :]
FlipRows(a) == Arr(a.h, a.w, [p \in Idx(a.h, a.w) |-> a.px[<<a.h + 1 - p[1], p[2]>>]])

\* flow * [mx, my]
ScaleFlow(a, mx, my) ==
  Arr(a.h, a.w, [p \in Idx(a.h, a.w) |-> <<RMul(a.px[p][1], mx), RMul(a.px[p][2], my)>>])

\* flow[~valid] = 0 for a boolean mask of the same shape
ZeroInvalid(fl, va) ==
  Arr(fl.h, fl.w,
      [p \in Idx(fl.h, fl.w) |-> IF va.px[p] THEN fl.px[p] ELSE <<Rat(0), Rat(0)>>])

\* the threshold of the validity density
Half == <<1, 2>>

\* faulty variant: the threshold is >= 0.5
CoerceBool_AtLeastHalf(va) ==
  Arr(va.h, va.w, [p \in Idx(va.h, va.w) |-> ~RLt(va.px[p], <<1, 2>>)])

\* (valid.astype(np.float32) > 0.5).astype(bool)
CoerceBool(va) == Arr(va.h, va.w, [p \in Idx(va.h, va.w) |-> RLt(Half, va.px[p])])

\* valid.astype(np.float32) of a boolean mask
BoolToFloat(va) ==
  Arr(va.h, va.w, [p \in Idx(va.h, va.w) |-> IF va.px[p] THEN Rat(1) ELSE Rat(0)])

\* -------------------------------------------------------- cv2 primitives
\* cvRound: nearest integer, ties to even, of a rational q >= 0
CvRound(q) ==
  LET fl == q[1] \div q[2]
      r2 == 2 * (q[1] % q[2])
  IN  IF r2 < q[2] THEN fl
      ELSE IF r2 > q[2] THEN fl + 1
      ELSE IF fl % 2 = 0 THEN fl ELSE fl + 1

\* the extent cv2.resize(src, None, fx=s) gives an axis of n pixels
ResizedDim(n, s) == CvRound(RMul(Rat(n), s))

\* INTER_LINEAR taps of destination index i (1-based) on an axis of n source
\* pixels scaled by s: source position (i - 1 + 0.5) / s - 0.5, clamped
LinearTap(i, s, n) ==
  LET num == (2 * i - 1) * s[2] - s[1]
      den == 2 * s[1]
      sx  == num \div den
      fr  == num - den * sx
  IN  IF sx < 0 THEN [lo |-> 1, hi |-> 1, w |-> Rat(0)]
      ELSE IF sx >= n - 1 THEN [lo |-> n, hi |-> n, w |-> Rat(0)]
      ELSE [lo |-> sx + 1, hi |-> sx + 2, w |-> Norm(<<fr, den>>)]

Lerp(a, b, w) == RAdd(RMul(RAdd(Rat(1), RNeg(w)), a), RMul(w, b))

\* cv2.resize(a, None, fx, fy, INTER_LINEAR) of one channel at (y, x)
LinearAt(a, y, x, fx, fy) ==
  LET ty == LinearTap(y, fy, a.h)
      tx == LinearTap(x, fx, a.w)
      top == Lerp(a.px[<<ty.lo, tx.lo>>], a.px[<<ty.lo, tx.hi>>], tx.w)
      bot == Lerp(a.px[<<ty.hi, tx.lo>>], a.px[<<ty.hi, tx.hi>>], tx.w)
  IN  Lerp(top, bot, ty.w)

\* cv2.resize of the float validity density
ResizeDensity(a, fx, fy) ==
  LET h == ResizedDim(a.h, fy)
      w == ResizedDim(a.w, fx)
  IN  Arr(h, w, [p \in Idx(h, w) |-> LinearAt(a, p[1], p[2], fx, fy)])

\* saturate_cast<uchar> of a rational in [0, 255]: nearest integer
RoundU8(q) == (2 * q[1] + q[2]) \div (2 * q[2])

\* cv2.resize of a uint8 image
ResizeImage(a, fx, fy) ==
  LET plane == ResizeDensity(Arr(a.h, a.w, [p \in Idx(a.h, a.w) |-> Rat(a.px[p])]), fx, fy)
  IN  Arr(plane.h, plane.w, [p \in Idx(plane.h, plane.w) |-> RoundU8(plane.px[p])])

\* cv2.resize of the two-channel float flow
ResizeFlow(a, fx, fy) ==
  LET u == ResizeDensity(Arr(a.h, a.w, [p \in Idx(a.h, a.w) |-> a.px[p][1]]), fx, fy)
      v == ResizeDensity(Arr(a.h, a.w, [p \in Idx(a.h, a.w) |-> a.px[p][2]]), fx, fy)
  IN  Arr(u.h, u.w, [p \in Idx(u.h, u.w) |-> <<u.px[p], v.px[p]>>])

\* the 1e-5 of line 173
Epsilon == <<1, 100000>>

\* flow * [scale_x, scale_y] / (valid + 1e-5)[:, :, None], same shapes
Renormalize(fl, dens, fx, fy) ==
  Arr(fl.h, fl.w,
      [p \in Idx(fl.h, fl.w) |->
         <<RDiv(RMul(fl.px[p][1], fx), RAdd(dens.px[p], Epsilon)),
           RDiv(RMul(fl.px[p][2], fy), RAdd(dens.px[p], Epsilon))>>])

\* ----------------------------------------------------------- random draws
\* np.random.rand(): values of [0, 1)
RandDraws == {<<0, 1>>, <<1, 2>>, <<9, 10>>}

\* 2 ** np.random.uniform(self.min_scale, self.max_scale): values of
\* [2^-0.2, 2^0.5] = [0.8706, 1.4142]
ScaleDraws == {<<7, 8>>, <<5, 4>>}

\* 2 ** np.random.uniform(-self.max_stretch, self.max_stretch): values of
\* [2^-0.2, 2^0.2] = [0.8706, 1.1487]
StretchDraws == {<<1, 1>>, <<8, 7>>}

\* the brightness factor ColorJitter(brightness=0.4) draws from [0.6, 1.4]
JitterDraws == {<<5, 4>>}

\* np.random.randint(0, n): values of 0..n-1
OriginDraws(n) == {n - 1}

\* np.random.randint(50, 100)
EraserSizeDraws == {50, 99}

\* -------------------------------------------------------------- the state
VARIABLES
  self,          \* the FlowAugmentor's attributes
  pc,            \* position in __call__ / spatial_transform
  inCall,        \* spatial_transform was entered from __call__
  err,           \* the call that raised, "none" otherwise
  arg,           \* the caller's four arrays (the objects passed in), as they are now
  arg0,          \* their contents when __call__ was entered
  entry,         \* img1, img2 as passed to spatial_transform
  img1, img2, flow, valid,      \* the locals of spatial_transform
  flowIsCaller,  \* the local name flow is bound to the caller's array
  pad_b, pad_r, min_scale, scale_x, scale_y, y0, x0,
  resampled,     \* the branch of line 165 was taken
  hflip, vflip,  \* the branches of lines 178, 183 were taken
  drawnY, drawnX \* y0, x0 came from np.random.randint

vars == <<self, pc, inCall, err, arg, arg0, entry, img1, img2, flow, valid, flowIsCaller,
          pad_b, pad_r, min_scale, scale_x, scale_y, y0, x0,
          resampled, hflip, vflip, drawnY, drawnX>>

locals == <<img1, img2, flow, valid, flowIsCaller, pad_b, pad_r, min_scale,
            scale_x, scale_y, y0, x0, resampled, hflip, vflip, drawnY, drawnX>>

CropSizes == (1..MaxCrop) \X (1..MaxCrop)

\* FlowAugmentor.__init__
NewAugmentor(crop_size, do_flip) ==
  [crop_size |-> crop_size, min_scale |-> <<-1, 5>>, max_scale |-> <<1, 2>>,
   spatial_aug_prob |-> <<4, 5>>, stretch_prob |-> <<4, 5>>, max_stretch |-> <<1, 5>>,
   do_flip |-> do_flip, h_flip_prob |-> <<1, 2>>, v_flip_prob |-> <<1, 10>>,
   asymmetric_color_aug_prob |-> <<1, 5>>, eraser_aug_prob |-> <<1, 2>>]

NoLocals ==
  /\ img1 = EmptyArr /\ img2 = EmptyArr /\ flow = EmptyArr /\ valid = EmptyArr
  /\ flowIsCaller = FALSE
  /\ pad_b = 0 /\ pad_r = 0
  /\ min_scale = Rat(0) /\ scale_x = Rat(0) /\ scale_y = Rat(0)
  /\ y0 = 0 /\ x0 = 0
  /\ resampled = FALSE /\ hflip = FALSE /\ vflip = FALSE
  /\ drawnY = FALSE /\ drawnX = FALSE

NoArgs == [img1 |-> EmptyArr, img2 |-> EmptyArr, flow |-> EmptyArr, valid |-> EmptyArr]

Init ==
  /\ \E cs \in CropSizes, df \in BOOLEAN : self = NewAugmentor(cs, df)
  /\ pc = "idle" /\ inCall = FALSE /\ err = "none"
  /\ arg = NoArgs /\ arg0 = NoArgs
  /\ entry = [img1 |-> EmptyArr, img2 |-> EmptyArr]
  /\ NoLocals

\* ------------------------------------------------------ the caller's data
\* the flow field and the validity mask of a sample
SampleKinds == {<<"zero", "all">>, <<"ramp", "none">>, <<"ramp", "hole">>, <<"ramp", "soft">>}

\* an image whose pixels are all different and nonzero
TestImage(h, w, base) == Arr(h, w, [p \in Idx(h, w) |-> base + (p[1] - 1) * w + p[2]])

\* "zero": no motion; "ramp": the vector (x, -y) at column x of row y
TestFlow(h, w, kind) ==
  Arr(h, w, [p \in Idx(h, w) |->
               IF kind = "zero" THEN <<Rat(0), Rat(0)>> ELSE <<Rat(p[2]), Rat(-p[1])>>])

\* "all": 1 everywhere; "none": 0 everywhere; "hole": 0 at the first pixel and
\* 1 elsewhere; "soft": 0.5 at the first pixel and 1 elsewhere
TestValid(h, w, kind) ==
  Arr(h, w, [p \in Idx(h, w) |->
               IF kind = "all" THEN Rat(1)
               ELSE IF kind = "none" THEN Rat(0)
               ELSE IF p # <<1, 1>> THEN Rat(1)
               ELSE IF kind = "hole" THEN Rat(0) ELSE <<1, 2>>])

\* samples that meet the precondition: one spatial extent for all four arrays
GoodArgs ==
  { [img1 |-> TestImage(h, w, 0), img2 |-> TestImage(h, w, 100),
     flow |-> TestFlow(h, w, k[1]), valid |-> TestValid(h, w, k[2])] :
      h \in 1..MaxDim, w \in 1..MaxDim, k \in SampleKinds }

\* the other extent of a mismatched array
Other(n) == IF n > 1 THEN n - 1 ELSE n + 1

\* samples that break it: img2, flow, valid, or flow and valid together, has
\* another extent than img1
BadArgs ==
  { [img1 |-> TestImage(h, w, 0),
     img2 |-> IF who = "img2" THEN TestImage(Other(h), w, 100)
              ELSE IF who = "img2w" THEN TestImage(h, Other(w), 100)
              ELSE TestImage(h, w, 100),
     flow |-> IF who \in {"flow", "both"} THEN TestFlow(Other(h), Other(w), "ramp")
              ELSE TestFlow(h, w, "ramp"),
     valid |-> IF who \in {"valid", "both"} THEN TestValid(Other(h), Other(w), "hole")
               ELSE TestValid(h, w, "hole")] :
      h \in 1..MaxDim, w \in 1..MaxDim,
      who \in {"img2", "img2w", "flow", "valid", "both"} }

\* what __call__ is given: samples that meet the precondition and samples that do not
CallArgs ==
  { [img1 |-> TestImage(h, w, 0), img2 |-> TestImage(h, w, 100),
     flow |-> TestFlow(h, w, "ramp"), valid |-> TestValid(h, w, "hole")] :
      h \in 1..MaxDim, w \in 1..MaxDim } \cup BadArgs

ResetLocals ==
  /\ pad_b' = 0 /\ pad_r' = 0
  /\ min_scale' = Rat(0) /\ scale_x' = Rat(0) /\ scale_y' = Rat(0)
  /\ y0' = 0 /\ x0' = 0
  /\ resampled' = FALSE /\ hflip' = FALSE /\ vflip' = FALSE
  /\ drawnY' = FALSE /\ drawnX' = FALSE

\* line 132: spatial_transform is called on its own with the caller's arrays
CallSpatial ==
  /\ pc = "idle"
  /\ \E a \in GoodArgs :
       /\ arg' = a /\ arg0' = a
       /\ entry' = [img1 |-> a.img1, img2 |-> a.img2]
       /\ img1' = a.img1 /\ img2' = a.img2 /\ flow' = a.flow /\ valid' = a.valid
  /\ flowIsCaller' = TRUE
  /\ pc' = "pad" /\ inCall' = FALSE /\ err' = "none"
  /\ ResetLocals
  /\ UNCHANGED self

\* line 205: __call__ is entered with the caller's arrays
Call ==
  /\ pc = "idle"
  /\ \E a \in CallArgs : arg' = a /\ arg0' = a
  /\ entry' = [img1 |-> EmptyArr, img2 |-> EmptyArr]
  /\ img1' = EmptyArr /\ img2' = EmptyArr /\ flow' = EmptyArr /\ valid' = EmptyArr
  /\ flowIsCaller' = FALSE
  /\ pc' = "color" /\ inCall' = TRUE /\ err' = "none"
  /\ ResetLocals
  /\ UNCHANGED self

Raise(what) ==
  /\ pc' = "raised" /\ err' = what

\* ------------------------------------------------------- color_transform
\* self.photo_aug on a uint8 image: brightened by factor k, clipped to 255
Jitter(k, a) ==
  Arr(a.h, a.w, [p \in Idx(a.h, a.w) |-> Min(255, (a.px[p] * k[1]) \div k[2])])

\* np.concatenate([a, b], axis=0) of arrays of one width
Concat0(a, b) ==
  Arr(a.h + b.h, a.w,
      [p \in Idx(a.h + b.h, a.w) |->
         IF p[1] <= a.h THEN a.px[p] ELSE b.px[<<p[1] - a.h, p[2]>>]])

ColorTransform ==
  /\ pc = "color"
  /\ \E r \in RandDraws, k1 \in JitterDraws, k2 \in JitterDraws :
       IF RLt(r, self.asymmetric_color_aug_prob)
       THEN /\ img1' = Jitter(k1, arg.img1)
            /\ img2' = Jitter(k2, arg.img2)
            /\ pc' = "eraser" /\ UNCHANGED err
       ELSE IF arg.img1.w # arg.img2.w
       THEN Raise("concatenate") /\ UNCHANGED <<img1, img2>>
       ELSE IF (arg.img1.h + arg.img2.h) % 2 # 0
       THEN Raise("split") /\ UNCHANGED <<img1, img2>>
       ELSE LET stack == Jitter(k1, Concat0(arg.img1, arg.img2))
                half  == stack.h \div 2
            IN  /\ img1' = NpSlice(stack, 0, half, 0, stack.w)
                /\ img2' = NpSlice(stack, half, stack.h, 0, stack.w)
                /\ pc' = "eraser" /\ UNCHANGED err
  /\ UNCHANGED <<self, inCall, arg, arg0, entry, flow, valid, flowIsCaller, pad_b, pad_r,
                 min_scale, scale_x, scale_y, y0, x0, resampled, hflip, vflip,
                 drawnY, drawnX>>

\* ------------------------------------------------------ eraser_transform
RECURSIVE SumPx(_, _)
SumPx(a, k) ==
  IF k = 0 THEN 0
  ELSE a.px[<<((k - 1) \div a.w) + 1, ((k - 1) % a.w) + 1>>] + SumPx(a, k - 1)

\* np.mean(img2.reshape(-1, 3), axis=0) as stored into a uint8 array
MeanColor(a) == SumPx(a, a.h * a.w) \div (a.h * a.w)

\* a[y0:y0+dy, x0:x0+dx, :] = c
FillRect(a, y, x, dy, dx, c) ==
  Arr(a.h, a.w,
      [p \in Idx(a.h, a.w) |->
         IF y < p[1] /\ p[1] <= y + dy /\ x < p[2] /\ p[2] <= x + dx THEN c ELSE a.px[p]])

EraserTransform ==
  /\ pc = "eraser"
  /\ \E r \in RandDraws :
       IF RLt(r, self.eraser_aug_prob)
       THEN \E n \in 1..2,
               xa \in OriginDraws(img1.w), ya \in OriginDraws(img1.h),
               xb \in OriginDraws(img1.w), yb \in OriginDraws(img1.h),
               dx \in EraserSizeDraws, dy \in EraserSizeDraws :
              LET mean_color == MeanColor(img2)
                  once == FillRect(img2, ya, xa, dy, dx, mean_color)
              IN  img2' = IF n = 1 THEN once
                          ELSE FillRect(once, yb, xb, dy, dx, mean_color)
       ELSE img2' = img2
  /\ entry' = [img1 |-> img1, img2 |-> img2']
  /\ flow' = arg.flow /\ valid' = arg.valid /\ flowIsCaller' = TRUE
  /\ pc' = "pad"
  /\ UNCHANGED <<self, inCall, err, arg, arg0, img1, pad_b, pad_r,
                 min_scale, scale_x, scale_y, y0, x0, resampled, hflip, vflip,
                 drawnY, drawnX>>

\* ----------------------------------------------------- spatial_transform
\* lines 133-146
PadAmount(crop, n) == IF crop > n THEN crop - n ELSE 0

Pad ==
  /\ pc = "pad"
  /\ LET pb == PadAmount(self.crop_size[1], img1.h)
         pr == PadAmount(self.crop_size[2], img1.w)
     IN  /\ pad_b' = pb /\ pad_r' = pr
         /\ IF pb # 0 \/ pr # 0
            THEN /\ img1' = NpPad(img1, pb, pr, 0)
                 /\ img2' = NpPad(img2, pb, pr, 0)
                 /\ flow' = NpPad(flow, pb, pr, <<Rat(0), Rat(0)>>)
                 /\ valid' = NpPad(valid, pb, pr, Rat(0))
                 /\ flowIsCaller' = FALSE
            ELSE UNCHANGED <<img1, img2, flow, valid, flowIsCaller>>
  /\ pc' = "scale"
  /\ UNCHANGED <<self, inCall, err, arg, arg0, entry,
                 min_scale, scale_x, scale_y, y0, x0, resampled, hflip, vflip,
                 drawnY, drawnX>>

\* lines 149-152
MinScale(crop, ht, wd) == RMax(Norm(<<crop[1] + 1, ht>>), Norm(<<crop[2] + 1, wd>>))

\* faulty variant: the lower bound is not applied
ClipLow_Unclipped(s, lo) == s

\* np.clip(s, lo, None)
ClipLow(s, lo) == RMax(s, lo)

\* lines 149-162
SampleScale ==
  /\ pc = "scale"
  /\ \E scale \in ScaleDraws, r \in RandDraws, stx \in StretchDraws, sty \in StretchDraws :
       LET ms == MinScale(self.crop_size, img1.h, img1.w)
           stretch == RLt(r, self.stretch_prob)
           sx == IF stretch THEN RMul(scale, stx) ELSE scale
           sy == IF stretch THEN RMul(scale, sty) ELSE scale
       IN  /\ min_scale' = ms
           /\ scale_x' = ClipLow(sx, ms)
           /\ scale_y' = ClipLow(sy, ms)
  /\ pc' = "coerce"
  /\ UNCHANGED <<self, inCall, err, arg, arg0, entry, img1, img2, flow, valid, flowIsCaller,
                 pad_b, pad_r, y0, x0, resampled, hflip, vflip, drawnY, drawnX>>

\* line 164
CoerceValid ==
  /\ pc = "coerce"
  /\ valid' = CoerceBool(valid)
  /\ pc' = "resample"
  /\ UNCHANGED <<self, inCall, err, arg, arg0, entry, img1, img2, flow, flowIsCaller,
                 pad_b, pad_r, min_scale, scale_x, scale_y, y0, x0,
                 resampled, hflip, vflip, drawnY, drawnX>>

\* lines 165-175, the branch taken
Resample ==
  /\ pc = "resample"
  /\ \E r \in RandDraws : RLt(r, self.spatial_aug_prob)
  /\ resampled' = TRUE
  /\ img1' = ResizeImage(img1, scale_x, scale_y)
  /\ img2' = ResizeImage(img2, scale_x, scale_y)
  /\ IF ~SameShape(flow, valid)
     THEN \* flow[~valid] = 0: the boolean index does not match the array
          /\ Raise("mask")
          /\ UNCHANGED <<arg, flow, valid, flowIsCaller>>
     ELSE LET zeroed == ZeroInvalid(flow, valid)
              fl == ResizeFlow(zeroed, scale_x, scale_y)
              dens == ResizeDensity(BoolToFloat(valid), scale_x, scale_y)
              va == CoerceBool(dens)
          IN  /\ arg' = IF flowIsCaller THEN [arg EXCEPT !.flow = zeroed] ELSE arg
              /\ flow' = ZeroInvalid(Renormalize(fl, dens, scale_x, scale_y), va)
              /\ valid' = va
              /\ flowIsCaller' = FALSE
              /\ pc' = "flip" /\ UNCHANGED err
  /\ UNCHANGED <<self, inCall, arg0, entry, pad_b, pad_r, min_scale, scale_x, scale_y,
                 y0, x0, hflip, vflip, drawnY, drawnX>>

\* line 165, the branch not taken
SkipResample ==
  /\ pc = "resample"
  /\ \E r \in RandDraws : ~RLt(r, self.spatial_aug_prob)
  /\ pc' = "flip"
  /\ UNCHANGED <<self, inCall, err, arg, arg0, entry, img1, img2, flow, valid, flowIsCaller,
                 pad_b, pad_r, min_scale, scale_x, scale_y, y0, x0,
                 resampled, hflip, vflip, drawnY, drawnX>>

\* lines 179-181
HFlipImage(a) == FlipCols(a)

\* faulty variant: the horizontal flip negates both components
HFlipFlow_BothNegated(a) == ScaleFlow(FlipCols(a), Rat(-1), Rat(-1))

HFlipFlow(a) == ScaleFlow(FlipCols(a), Rat(-1), Rat(1))

\* lines 184-186
VFlipImage(a) == FlipRows(a)

VFlipFlow(a) == ScaleFlow(FlipRows(a), Rat(1), Rat(-1))

\* lines 177-186
Flip ==
  /\ pc = "flip"
  /\ \E rh \in RandDraws, rv \in RandDraws :
       LET h == self.do_flip /\ RLt(rh, self.h_flip_prob)
           v == self.do_flip /\ RLt(rv, self.v_flip_prob)
           i1 == IF h THEN HFlipImage(img1) ELSE img1
           i2 == IF h THEN HFlipImage(img2) ELSE img2
           fl == IF h THEN HFlipFlow(flow) ELSE flow
       IN  /\ hflip' = h /\ vflip' = v
           /\ img1' = IF v THEN VFlipImage(i1) ELSE i1
           /\ img2' = IF v THEN VFlipImage(i2) ELSE i2
           /\ flow' = IF v THEN VFlipFlow(fl) ELSE fl
  /\ pc' = "crop"
  /\ UNCHANGED <<self, inCall, err, arg, arg0, entry, valid, flowIsCaller,
                 pad_b, pad_r, min_scale, scale_x, scale_y, y0, x0,
                 resampled, drawnY, drawnX>>

\* faulty variant: the offset is always drawn, the equal case is not special
CropOffset_AlwaysDrawn(n, crop) == [drawn |-> TRUE, vals |-> 0..(n - crop - 1)]

\* lines 188-191 and 193-196: whether the offset is drawn, and from what
CropOffset(n, crop) ==
  [drawn |-> n # crop, vals |-> IF n = crop THEN {0} ELSE 0..(n - crop - 1)]

\* faulty variant: the window takes crop_size[1] rows and crop_size[0] columns
CropWindow_Swapped(a, y, x, crop) == NpSlice(a, y, y + crop[2], x, x + crop[1])

\* lines 198-201
CropWindow(a, y, x, crop) == NpSlice(a, y, y + crop[1], x, x + crop[2])

\* lines 188-202
Crop ==
  /\ pc = "crop"
  /\ LET oy == CropOffset(img1.h, self.crop_size[1])
         ox == CropOffset(img1.w, self.crop_size[2])
     IN  /\ drawnY' = oy.drawn
         /\ IF oy.vals = {}
            THEN \* np.random.randint(0, high) with high <= 0
                 /\ Raise("randint")
                 /\ UNCHANGED <<y0, x0, drawnX, img1, img2, flow, valid>>
            ELSE \E y \in oy.vals :
                   /\ y0' = y
                   /\ drawnX' = ox.drawn
                   /\ IF ox.vals = {}
                      THEN /\ Raise("randint")
                           /\ UNCHANGED <<x0, img1, img2, flow, valid>>
                      ELSE \E x \in ox.vals :
                             /\ x0' = x
                             /\ img1' = CropWindow(img1, y, x, self.crop_size)
                             /\ img2' = CropWindow(img2, y, x, self.crop_size)
                             /\ flow' = CropWindow(flow, y, x, self.crop_size)
                             /\ valid' = CropWindow(valid, y, x, self.crop_size)
                             /\ pc' = (IF inCall THEN "ret" ELSE "done")
                             /\ UNCHANGED err
  /\ UNCHANGED <<self, inCall, arg, arg0, entry, flowIsCaller,
                 pad_b, pad_r, min_scale, scale_x, scale_y,
                 resampled, hflip, vflip>>

\* lines 209-213: np.ascontiguousarray keeps shape and values
Return ==
  /\ pc = "ret"
  /\ pc' = "done"
  /\ UNCHANGED <<self, inCall, err, arg, arg0, entry, locals>>

\* spatial_transform called on samples that meet the precondition
Next ==
  \/ CallSpatial
  \/ Pad
  \/ SampleScale
  \/ CoerceValid
  \/ Resample
  \/ SkipResample
  \/ Flip
  \/ Crop

Spec == Init /\ [][Next]_vars

\* __call__ on any sample
NextCall ==
  \/ Call
  \/ ColorTransform
  \/ EraserTransform
  \/ Pad
  \/ SampleScale
  \/ CoerceValid
  \/ Resample
  \/ SkipResample
  \/ Flip
  \/ Crop
  \/ Return

SpecCall == Init /\ [][NextCall]_vars

\* ============================================================== properties
crop_h == self.crop_size[1]

crop_w == self.crop_size[2]

\* the extent of the arrays the caller passed in
H == arg0.img1.h

W == arg0.img1.w

RLe(a, b) == a[1] * b[2] <= b[1] * a[2]

\* the precondition: one spatial extent for all four arrays
ShapesAgree(a) ==
  /\ SameShape(a.img1, a.img2) /\ SameShape(a.img1, a.flow) /\ SameShape(a.img1, a.valid)

ZeroFlow == <<Rat(0), Rat(0)>>

HasShape(a, h, w) == a.h = h /\ a.w = w

\* a is the window of b whose top-left corner is b's pixel (y, x), 0-based
WindowOf(a, b, y, x) ==
  \A p \in Idx(a.h, a.w) : a.px[p] = b.px[<<y + p[1], x + p[2]>>]

\* ---- C1
\* C1: for every sample that meets the precondition and every random draw,
\* spatial_transform returns (it does not raise) and its four outputs have
\* height crop_h and width crop_w.
C1_OutputShape ==
  /\ pc # "raised"
  /\ pc = "done" =>
       /\ HasShape(img1, crop_h, crop_w) /\ HasShape(img2, crop_h, crop_w)
       /\ HasShape(flow, crop_h, crop_w) /\ HasShape(valid, crop_h, crop_w)

\* a padded-in-height, wider-than-the-crop input went through resampling and a flip
C1_Witness ==
  /\ pc = "done" /\ resampled /\ hflip
  /\ H < crop_h /\ W > crop_w

\* ---- C2
\* C2: every output pixel that valid' marks invalid has flow' = (0, 0).
C2_InvalidFlowZero ==
  pc = "done" =>
    \A p \in Idx(valid.h, valid.w) : ~valid.px[p] => flow.px[p] = ZeroFlow

\* ---- C3
\* where output pixel p of the flip step comes from
FlipSource(a, p, h, v) ==
  <<IF v THEN a.h + 1 - p[1] ELSE p[1], IF h THEN a.w + 1 - p[2] ELSE p[2]>>

Mirror(a, h, v) ==
  [h |-> a.h, w |-> a.w, px |-> [p \in Idx(a.h, a.w) |-> a.px[FlipSource(a, p, h, v)]]]

\* C3: the flip step mirrors the validity mask along the axes it mirrors the
\* images and the flow along.
C3_ValidMirrored ==
  [][pc = "flip" /\ pc' = "crop" => valid' = Mirror(valid, hflip', vflip')]_vars

\* ---- C4
Negated(q) == IF q[1] = 0 THEN q ELSE <<-q[1], q[2]>>

MirrorFlow(a, h, v) ==
  [h |-> a.h, w |-> a.w,
   px |-> [p \in Idx(a.h, a.w) |->
             <<IF h THEN Negated(a.px[FlipSource(a, p, h, v)][1])
               ELSE a.px[FlipSource(a, p, h, v)][1],
               IF v THEN Negated(a.px[FlipSource(a, p, h, v)][2])
               ELSE a.px[FlipSource(a, p, h, v)][2]>>]]

C4_FlipStep ==
  pc = "flip" /\ pc' = "crop" =>
    /\ img1' = Mirror(img1, hflip', vflip')
    /\ img2' = Mirror(img2, hflip', vflip')
    /\ flow' = MirrorFlow(flow, hflip', vflip')
    /\ ~self.do_flip => ~hflip' /\ ~vflip'

C4_Independent ==
  pc = "flip" /\ self.do_flip =>
    \A h \in BOOLEAN, v \in BOOLEAN : ENABLED (Flip /\ hflip' = h /\ vflip' = v)

\* C4: a horizontal flip reverses the columns of img1, img2 and flow and negates
\* the flow's x component only; a vertical flip reverses the rows and negates
\* the y component only; both together are a rotation by 180 degrees with both
\* components negated; each of the four combinations can be drawn when flips
\* are enabled, and none but "no flip" when they are disabled.
C4_Flips == [][C4_FlipStep]_vars /\ []C4_Independent

\* both flips applied to a flow field with nonzero vectors and more than one
\* row and column
C4_Witness ==
  /\ pc = "crop" /\ hflip /\ vflip
  /\ flow.h > 1 /\ flow.w > 1
  /\ \E p \in Idx(flow.h, flow.w) : flow.px[p][1][1] # 0 /\ flow.px[p][2][1] # 0

\* ---- C5
AfterScale == pc \in {"coerce", "resample", "flip", "crop", "ret", "done"}

\* C5 as stated: scale_x, scale_y >= max((crop_h+1)/H, (crop_w+1)/W) with H, W
\* the input's extent.
C5_ScaleAboveInputMin ==
  AfterScale =>
    LET m == IF RLe(<<crop_h + 1, H>>, <<crop_w + 1, W>>)
             THEN <<crop_w + 1, W>> ELSE <<crop_h + 1, H>>
    IN  RLe(m, scale_x) /\ RLe(m, scale_y)

\* the extent after padding
PaddedH == IF H < crop_h THEN crop_h ELSE H

PaddedW == IF W < crop_w THEN crop_w ELSE W

C5_Scales ==
  AfterScale =>
    /\ RLe(<<crop_h + 1, PaddedH>>, min_scale) /\ RLe(<<crop_w + 1, PaddedW>>, min_scale)
    /\ \/ RLe(min_scale, <<crop_h + 1, PaddedH>>)
       \/ RLe(min_scale, <<crop_w + 1, PaddedW>>)
    /\ RLe(min_scale, scale_x) /\ RLe(min_scale, scale_y)

C5_Resized ==
  pc = "flip" /\ resampled =>
    /\ img1.h > crop_h /\ img1.w > crop_w
    /\ SameShape(img1, img2) /\ SameShape(img1, flow) /\ SameShape(img1, valid)

C5_CropStep ==
  pc = "crop" =>
    /\ pc' = "done" /\ err' = "none"
    /\ drawnY' => img1.h - crop_h >= 1
    /\ drawnX' => img1.w - crop_w >= 1
    /\ 0 <= y0' /\ y0' + crop_h <= img1.h
    /\ 0 <= x0' /\ x0' + crop_w <= img1.w

\* C5, amended: after clipping scale_x, scale_y >= min_scale =
\* max((crop_h+1)/H', (crop_w+1)/W') with H', W' the extent after padding; when
\* resampling is applied the resized extent exceeds the crop size in both
\* dimensions; every crop-offset draw has a non-empty range and the crop window
\* lies inside the image being cropped.
C5_ScaleAbovePaddedMin == []C5_Scales /\ []C5_Resized /\ [][C5_CropStep]_vars

\* a padded input whose drawn scale was below min_scale, resampled and cropped
\* at a drawn offset
C5_Witness ==
  /\ pc = "done" /\ resampled /\ drawnY /\ drawnX
  /\ H < crop_h
  /\ scale_x = min_scale /\ scale_y = min_scale

\* ---- C6
\* C6 as stated: an input whose height (width) equals the crop's gets y0 = 0
\* (x0 = 0), whatever the other draws are.
C6_EqualInputNoDraw ==
  pc = "done" =>
    /\ H = crop_h => y0 = 0
    /\ W = crop_w => x0 = 0

\* C6, amended: when resampling is skipped, an input whose height (width)
\* equals the crop's gets y0 = 0 (x0 = 0) without a draw and the crop step does
\* not raise; when resampling is applied both offsets are drawn.
C6_EqualInputNoDrawWhenSkipped ==
  /\ err # "randint"
  /\ pc = "done" /\ ~resampled =>
       /\ H = crop_h => y0 = 0 /\ ~drawnY
       /\ W = crop_w => x0 = 0 /\ ~drawnX
  /\ pc = "done" /\ resampled => drawnY /\ drawnX

\* resampling skipped on an input as high as the crop and wider than it
C6_Witness ==
  /\ pc = "done" /\ ~resampled
  /\ H = crop_h /\ W > crop_w /\ drawnX /\ ~drawnY

\* ---- C7
\* a is b extended at the bottom and the right to at least crop_h x crop_w,
\* each added pixel being zero
PaddedFrom(a, b, zero) ==
  /\ HasShape(a, PaddedH, PaddedW)
  /\ \A p \in Idx(a.h, a.w) :
       a.px[p] = IF p[1] <= b.h /\ p[2] <= b.w THEN b.px[p] ELSE zero

\* C7: after the padding step each array has the extent max(input, crop) in
\* each dimension, holds its input pixels at their indices and zeros elsewhere;
\* once thresholded the validity is false at every added pixel.
C7_Padding ==
  /\ pc \in {"scale", "coerce"} =>
       /\ PaddedFrom(img1, entry.img1, 0)
       /\ PaddedFrom(img2, entry.img2, 0)
       /\ PaddedFrom(flow, arg0.flow, ZeroFlow)
       /\ PaddedFrom(valid, arg0.valid, Rat(0))
  /\ pc = "resample" =>
       /\ HasShape(valid, PaddedH, PaddedW)
       /\ \A p \in Idx(valid.h, valid.w) :
            valid.px[p] = (p[1] <= H /\ p[2] <= W /\ RLt(<<1, 2>>, arg0.valid.px[p]))

\* rows were added and columns were not
C7_Witness ==
  /\ pc = "resample"
  /\ H < crop_h /\ W > crop_w /\ pad_b = crop_h - H /\ pad_r = 0
  /\ \E p \in Idx(H, W) : valid.px[p]

\* ---- C8
\* C8: a sample whose four extents do not agree makes the call fail before the
\* padding step runs, and never yields a result.
C8_MismatchFailsFast ==
  pc # "idle" /\ ~ShapesAgree(arg0) =>
    /\ pc \in {"color", "eraser", "pad", "raised"}
    /\ pc = "raised" => err \in {"concatenate", "split"}

\* ---- C9
\* C9: when a call has returned, the configuration is the one the constructor
\* set and the caller's four arrays hold what they held when it was entered.
C9_NoSideEffects ==
  pc = "done" /\ ShapesAgree(arg0) =>
    /\ self = NewAugmentor(self.crop_size, self.do_flip)
    /\ arg = arg0

\* ---- C10
\* C10: with resampling skipped and flips disabled, an input larger than the
\* crop in both dimensions gives the window at one offset (y0, x0),
\* 0 <= y0 < H - crop_h, 0 <= x0 < W - crop_w, of img1, img2 and flow
\* unchanged and of the validity mask thresholded at > 0.5.
C10_SkippedIsWindow ==
  pc = "done" /\ ~resampled /\ ~self.do_flip /\ H > crop_h /\ W > crop_w =>
    /\ 0 <= y0 /\ y0 < H - crop_h
    /\ 0 <= x0 /\ x0 < W - crop_w
    /\ HasShape(img1, crop_h, crop_w) /\ WindowOf(img1, arg0.img1, y0, x0)
    /\ HasShape(img2, crop_h, crop_w) /\ WindowOf(img2, arg0.img2, y0, x0)
    /\ HasShape(flow, crop_h, crop_w) /\ WindowOf(flow, arg0.flow, y0, x0)
    /\ HasShape(valid, crop_h, crop_w)
    /\ \A p \in Idx(valid.h, valid.w) :
         valid.px[p] = RLt(<<1, 2>>, arg0.valid.px[<<y0 + p[1], x0 + p[2]>>])

\* a window at a nonzero offset in both dimensions of a nonzero flow field
C10_Witness ==
  /\ pc = "done" /\ ~resampled /\ ~self.do_flip
  /\ H > crop_h /\ W > crop_w
  /\ y0 > 0 /\ x0 > 0
  /\ flow.px[<<1, 1>>] # ZeroFlow

====
